---- MODULE Spec2Model ----
(***************************************************************************)
(* Model of `nats server ls` (cli/server_list_command.go): the scatter-    *)
(* gather collection of server status replies, the mutex-protected         *)
(* aggregation done by the reply callback, and the ranking and reporting   *)
(* the coordinator (SrvLsCmd.list) does once doReqAsync has returned.      *)
(*                                                                         *)
(* doReqAsync itself lives in another file of the repository; its          *)
(* behaviour (delivery of replies on transport workers, completion by      *)
(* expected count or timeout) is modelled from the specification text.     *)
(* compactStrings, printJSON and the table writer only format text and     *)
(* are represented by the rows handed to them.                             *)
(***************************************************************************)
EXTENDS Integers, Sequences, FiniteSets, TLC

\* ---------------------------------------------------------------- bounds
NumWorkers == 2      \* transport workers that may run the callback at once
MaxReplies == 2      \* replies the servers send in one run
Timeout == 1         \* length of the collection window, in clock ticks
MaxExpect == 1       \* largest value of the `expect` argument explored
MaxRank == 3         \* longest result set handed to the ranking alone

Workers == 1..NumWorkers
NoHolder == 0        \* sync.Mutex zero value: unlocked

\* subs and Stats.NumSubs are uint32 (line 78).  A uint32 is kept as its two
\* 16-bit halves, [hi, lo] standing for hi * 2^16 + lo.
Half == 65536

u32(hi, lo) == [hi |-> hi, lo |-> lo]

\* uint32 addition: the carry out of the high half is dropped
u32Add(a, b) ==
  LET l == a.lo + b.lo
  IN [hi |-> (a.hi + b.hi + (l \div Half)) % Half, lo |-> l % Half]

\* uint32 `<`
u32Less(a, b) == a.hi < b.hi \/ (a.hi = b.hi /\ a.lo < b.lo)

\* ------------------------------------------------------------ the inputs
\* Server names are represented by their rank in lexical order, so that
\* Go's string `<` is integer `<`.  cpu is float64 in the source; only its
\* order matters here.  start is Stats.Start.UnixNano().
Catalogue ==
  { [name |-> 2, cluster |-> "A", conns |-> 5,  subs |-> u32(32768, 0), routes |-> 2,
     gws |-> 1, gwIn |-> 3, mem |-> 100, cpu |-> 10, slow |-> 0, js |-> TRUE,  start |-> 3],
    [name |-> 1, cluster |-> "B", conns |-> 20, subs |-> u32(0, 7), routes |-> 1,
     gws |-> 2, gwIn |-> 1, mem |-> 300, cpu |-> 30, slow |-> 2, js |-> FALSE, start |-> 1],
    [name |-> 3, cluster |-> "A", conns |-> 5,  subs |-> u32(0, 7), routes |-> 2,
     gws |-> 1, gwIn |-> 0, mem |-> 200, cpu |-> 10, slow |-> 0, js |-> TRUE,  start |-> 3],
    [name |-> 0, cluster |-> "",  conns |-> 1,  subs |-> u32(0, 0), routes |-> 0,
     gws |-> 0, gwIn |-> 0, mem |-> 50,  cpu |-> 0,  slow |-> 1, js |-> FALSE, start |-> 2] }

\* a payload json.Unmarshal rejects; ssm is left at its zero value, whose
\* empty server name sorts before every other
Malformed ==
  [name |-> -1, cluster |-> "", conns |-> 0, subs |-> u32(0, 0), routes |-> 0,
   gws |-> 0, gwIn |-> 0, mem |-> 0, cpu |-> 0, slow |-> 0, js |-> FALSE, start |-> 0]

Payloads == Catalogue \cup {Malformed}

\* what an idle worker holds
NoPayload == [name |-> -2]

\* values the fisk EnumVar of the sort flag accepts (line 52)
SortEnum == {"name", "conns", "conn", "subs", "sub", "routes", "route", "gw",
             "mem", "cpu", "slow", "uptime", "rtt"}

\* keys the help text of the sort flag advertises (line 52)
HelpKeys == {"name", "conns", "subs", "routes", "gws", "mem", "cpu", "slow",
             "uptime", "rtt"}

\* case labels of the comparator's switch (lines 148-165); every other value
\* takes the default branch of line 166, the round-trip time
SwitchKeys == {"name", "conns", "conn", "subs", "sub", "routes", "route", "gws",
               "gw", "mem", "cpu", "slow", "uptime"}

\* the sort keys the collection runs are explored with; the ranking alone is
\* explored with every key of SortEnum
RunSortKeys == {"name", "rtt"}

VARIABLES
  expect,       \* c.expect
  json,         \* c.json
  sortKey,      \* c.sort
  reverse,      \* c.reverse
  pcC,          \* position of the coordinator (SrvLsCmd.list)
  closed,       \* the collection window has closed
  closeReason,  \* "none" | "count" | "timeout"
  now,          \* clock ticks since start = time.Now()
  started,      \* callbacks invoked by doReqAsync
  completed,    \* callbacks that returned
  pc,           \* position of each worker inside the callback
  cur,          \* payload each worker is handling
  mu,           \* holder of the mutex, NoHolder when free
  results, servers, connections, memory, slow, subs, js, clusters,
  out,          \* documents printed so far
  err,          \* error returned by list: "none" | "NoResults"
  cbErr,        \* the err of line 58 as the callbacks assign it: non-nil or not
  pre,          \* history: rollups as they were when the mutex was taken
  lenAtClose    \* history: len(results) when the window closed, -1 before

vars == <<expect, json, sortKey, reverse, pcC, closed, closeReason, now, started,
          completed, pc, cur, mu, results, servers, connections, memory, slow,
          subs, js, clusters, out, err, cbErr, pre, lenAtClose>>

cfgVars == <<expect, json, sortKey, reverse>>
rollupVars == <<servers, connections, memory, slow, subs, js, clusters>>
collectorVars == <<closed, closeReason, started, completed, lenAtClose>>

NoSnapshot == [servers |-> -1]

Snapshot == [servers |-> servers, connections |-> connections, memory |-> memory,
             slow |-> slow, subs |-> subs, js |-> js, clusters |-> clusters,
             results |-> results]

\* the process is alive: list has not returned and os.Exit was not called
Running == pcC \notin {"done", "exit1"}

\* ------------------------------------------------- the callback's updates
\* lines 95-102: the global rollups after one record
addServers(n) == n + 1
addConnections(n, r) == n + r.conns
addMemory(n, r) == n + r.mem
addSlow(n, r) == n + r.slow
addSubs(n, r) == u32Add(n, r.subs)
\* lines 100-102 without the JetStream test
addJs_always(n, r) == n + 1

addJs(n, r) == IF r.js THEN n + 1 ELSE n

\* line 108: &srvListCluster{cluster, []string{}, 0, 0, 0}
newCluster(c) == [name |-> c, nodes |-> <<>>, gwOut |-> 0, gwIn |-> 0, conns |-> 0]

\* lines 106-109 without the `if !ok`: the entry is always made afresh
ensureCluster_alwaysNew(cl, c) ==
  [x \in DOMAIN cl \cup {c} |-> IF x = c THEN newCluster(c) ELSE cl[x]]

\* lines 106-109: look the cluster up, create it when absent
ensureCluster(cl, c) == IF c \in DOMAIN cl THEN cl ELSE cl @@ (c :> newCluster(c))

\* lines 111-116 with `=` for `+=` on line 111
updateCluster_connsAssigned(k, r) ==
  [k EXCEPT !.conns = r.conns,
            !.nodes = Append(@, r.name),
            !.gwOut = @ + r.gws,
            !.gwIn = @ + r.gwIn]

\* lines 111-116 with a server name kept once only
updateCluster_dedup(k, r) ==
  [k EXCEPT !.conns = @ + r.conns,
            !.nodes = IF \E i \in DOMAIN @ : @[i] = r.name THEN @ ELSE Append(@, r.name),
            !.gwOut = @ + r.gws,
            !.gwIn = @ + r.gwIn]

\* lines 111-116: the cluster's rollup after one record
updateCluster(k, r) ==
  [k EXCEPT !.conns = @ + r.conns,
            !.nodes = Append(@, r.name),
            !.gwOut = @ + r.gws,
            !.gwIn = @ + r.gwIn]

\* lines 104-117
addCluster(cl, r) ==
  IF r.cluster # ""
    THEN LET e == ensureCluster(cl, r.cluster)
         IN [e EXCEPT ![r.cluster] = updateCluster(@, r)]
    ELSE cl

\* lines 119-122: &result{ServerStatsMsg: ssm, rtt: time.Since(start)}; id is
\* the identity of the freshly allocated result (its pointer)
newResult(r, t, n) == [msg |-> r, rtt |-> t, id |-> n]

\* ----------------------------------------------------------- doReqAsync
\* line 84 asking for one reply more than expected
waitFor_offByOne == expect + 1

\* line 84: int(c.expect), the count doReqAsync is asked to wait for
waitFor == expect

\* A reply is handed to the callback on the first free transport worker
\* while the window is open and, when a count is expected, fewer than that
\* many callbacks were invoked.
Deliver(h, p) ==
  /\ pcC = "collect"
  /\ ~closed
  /\ pc[h] = "idle"
  /\ \A g \in Workers : g < h => pc[g] # "idle"
  /\ started < MaxReplies
  /\ (waitFor = 0 \/ started < waitFor)
  /\ pc' = [pc EXCEPT ![h] = "decode"]
  /\ cur' = [cur EXCEPT ![h] = p]
  /\ started' = started + 1
  /\ UNCHANGED <<cfgVars, cbErr, pcC, closed, closeReason, now, completed, mu, results,
                 rollupVars, out, err, pre, lenAtClose>>

\* The callback returned: count it, and stop collecting once the expected
\* number of replies has been handled.
Counted(h) ==
  /\ Running
  /\ pc[h] = "return"
  /\ pc' = [pc EXCEPT ![h] = "idle"]
  /\ cur' = [cur EXCEPT ![h] = NoPayload]
  /\ completed' = completed + 1
  /\ IF pcC = "collect" /\ waitFor > 0 /\ completed + 1 = waitFor
       THEN /\ closed' = TRUE
            /\ closeReason' = "count"
            /\ lenAtClose' = Len(results)
            /\ pcC' = "check"
       ELSE UNCHANGED <<closed, closeReason, lenAtClose, pcC>>
  /\ UNCHANGED <<cfgVars, cbErr, now, started, mu, results, rollupVars, out, err, pre>>

\* time passes while the coordinator waits
Tick ==
  /\ pcC = "collect"
  /\ now < Timeout
  /\ now' = now + 1
  /\ UNCHANGED <<cfgVars, cbErr, pcC, collectorVars, pc, cur, mu, results, rollupVars,
                 out, err, pre>>

\* The timeout elapsed: the wait for the completion condition ends and
\* doReqAsync returns to list.
TimeoutFire ==
  /\ pcC = "collect"
  /\ now = Timeout
  /\ closed' = TRUE
  /\ closeReason' = "timeout"
  /\ lenAtClose' = Len(results)
  /\ pcC' = "check"
  /\ UNCHANGED <<cfgVars, cbErr, now, started, completed, pc, cur, mu, results,
                 rollupVars, out, err, pre>>

\* ------------------------------------------------- the reply callback
\* lines 85-86: err = json.Unmarshal(data, ssm) assigns the err that list
\* declared on line 58 and that every callback shares; mu is not held yet
Unmarshal(h) ==
  /\ Running
  /\ pc[h] = "decode"
  /\ cbErr' = (cur[h] = Malformed)
  /\ pc' = [pc EXCEPT ![h] = "iferr"]
  /\ UNCHANGED <<cfgVars, pcC, collectorVars, now, cur, mu, results, rollupVars,
                 out, err, pre>>

\* lines 87-90: if err != nil, log and os.Exit(1)
IfErr(h) ==
  /\ Running
  /\ pc[h] = "iferr"
  /\ IF cbErr
       THEN /\ pcC' = "exit1"
            /\ pc' = pc
       ELSE /\ pcC' = pcC
            /\ pc' = [pc EXCEPT ![h] = "lock"]
  /\ UNCHANGED <<cfgVars, cbErr, collectorVars, now, cur, mu, results, rollupVars,
                 out, err, pre>>

\* line 92: mu.Lock()
Lock(h) ==
  /\ Running
  /\ pc[h] = "lock"
  /\ mu = NoHolder
  /\ mu' = h
  /\ pre' = Snapshot
  /\ pc' = [pc EXCEPT ![h] = "global"]
  /\ UNCHANGED <<cfgVars, cbErr, pcC, collectorVars, now, cur, results, rollupVars, out,
                 err>>

\* lines 95-102
UpdateGlobal(h) ==
  /\ Running
  /\ pc[h] = "global"
  /\ servers' = addServers(servers)
  /\ connections' = addConnections(connections, cur[h])
  /\ memory' = addMemory(memory, cur[h])
  /\ slow' = addSlow(slow, cur[h])
  /\ subs' = addSubs(subs, cur[h])
  /\ js' = addJs(js, cur[h])
  /\ pc' = [pc EXCEPT ![h] = "cluster"]
  /\ UNCHANGED <<cfgVars, cbErr, pcC, collectorVars, now, cur, mu, results, clusters,
                 out, err, pre>>

\* lines 104-117
UpdateCluster(h) ==
  /\ Running
  /\ pc[h] = "cluster"
  /\ clusters' = addCluster(clusters, cur[h])
  /\ pc' = [pc EXCEPT ![h] = "append"]
  /\ UNCHANGED <<cfgVars, cbErr, pcC, collectorVars, now, cur, mu, results, servers,
                 connections, memory, slow, subs, js, out, err, pre>>

\* lines 119-122
AppendResult(h) ==
  /\ Running
  /\ pc[h] = "append"
  /\ results' = Append(results, newResult(cur[h], now, Len(results) + 1))
  /\ pc' = [pc EXCEPT ![h] = "unlock"]
  /\ UNCHANGED <<cfgVars, cbErr, pcC, collectorVars, now, cur, mu, rollupVars, out, err,
                 pre>>

\* line 93: the deferred mu.Unlock(), then the callback returns
Unlock(h) ==
  /\ Running
  /\ pc[h] = "unlock"
  /\ mu' = NoHolder
  /\ pre' = NoSnapshot
  /\ pc' = [pc EXCEPT ![h] = "return"]
  /\ UNCHANGED <<cfgVars, cbErr, pcC, collectorVars, now, cur, results, rollupVars, out,
                 err>>

\* ------------------------------------------------------------ the ranking
\* lines 136-141 without the default reversal
rev_asGiven(rv, v) == v

\* lines 136-141
rev(rv, v) == IF ~rv THEN ~v ELSE v

\* lines 143-169 with `<` on line 167
less_rttAscending(key, rv, a, b) ==
  CASE key = "name" -> a.msg.name < b.msg.name
    [] key \in {"conns", "conn"} -> rev(rv, a.msg.conns < b.msg.conns)
    [] key \in {"subs", "sub"} -> rev(rv, u32Less(a.msg.subs, b.msg.subs))
    [] key \in {"routes", "route"} -> rev(rv, a.msg.routes < b.msg.routes)
    [] key \in {"gws", "gw"} -> rev(rv, a.msg.gws < b.msg.gws)
    [] key = "mem" -> rev(rv, a.msg.mem < b.msg.mem)
    [] key = "cpu" -> rev(rv, a.msg.cpu < b.msg.cpu)
    [] key = "slow" -> rev(rv, a.msg.slow < b.msg.slow)
    [] key = "uptime" -> rev(rv, a.msg.start > b.msg.start)
    [] OTHER -> rev(rv, a.rtt < b.rtt)

\* lines 143-169 with `<` on line 165
less_uptimeAscending(key, rv, a, b) ==
  CASE key = "name" -> a.msg.name < b.msg.name
    [] key \in {"conns", "conn"} -> rev(rv, a.msg.conns < b.msg.conns)
    [] key \in {"subs", "sub"} -> rev(rv, u32Less(a.msg.subs, b.msg.subs))
    [] key \in {"routes", "route"} -> rev(rv, a.msg.routes < b.msg.routes)
    [] key \in {"gws", "gw"} -> rev(rv, a.msg.gws < b.msg.gws)
    [] key = "mem" -> rev(rv, a.msg.mem < b.msg.mem)
    [] key = "cpu" -> rev(rv, a.msg.cpu < b.msg.cpu)
    [] key = "slow" -> rev(rv, a.msg.slow < b.msg.slow)
    [] key = "uptime" -> rev(rv, a.msg.start < b.msg.start)
    [] OTHER -> rev(rv, a.rtt > b.rtt)

\* lines 143-169: the less function handed to sort.Slice
less(key, rv, a, b) ==
  CASE key = "name" -> a.msg.name < b.msg.name
    [] key \in {"conns", "conn"} -> rev(rv, a.msg.conns < b.msg.conns)
    [] key \in {"subs", "sub"} -> rev(rv, u32Less(a.msg.subs, b.msg.subs))
    [] key \in {"routes", "route"} -> rev(rv, a.msg.routes < b.msg.routes)
    [] key \in {"gws", "gw"} -> rev(rv, a.msg.gws < b.msg.gws)
    [] key = "mem" -> rev(rv, a.msg.mem < b.msg.mem)
    [] key = "cpu" -> rev(rv, a.msg.cpu < b.msg.cpu)
    [] key = "slow" -> rev(rv, a.msg.slow < b.msg.slow)
    [] key = "uptime" -> rev(rv, a.msg.start > b.msg.start)
    [] OTHER -> rev(rv, a.rtt > b.rtt)

Range(s) == {s[i] : i \in DOMAIN s}

\* an exchange that loses the element at i
swap_overwrite(s, i, j) == [s EXCEPT ![i] = s[j]]

swap(s, i, j) == [s EXCEPT ![i] = s[j], ![j] = s[i]]

\* sort.Slice on a slice of at most 12 elements is an insertion sort:
\*   for i := a+1; i < b; i++ {
\*     for j := i; j > a && less(data[j], data[j-1]); j-- { swap(j, j-1) } }
\* L is the less function, tabulated over the elements of the slice.
RECURSIVE insertLeft(_, _, _)
insertLeft(s, L, j) ==
  IF j > 1 /\ L[<<s[j], s[j - 1]>>]
    THEN insertLeft(swap(s, j, j - 1), L, j - 1)
    ELSE s

RECURSIVE insertionSort(_, _, _)
insertionSort(s, L, i) ==
  IF i > Len(s) THEN s ELSE insertionSort(insertLeft(s, L, i), L, i + 1)

sortSlice(s, L) == insertionSort(s, L, 2)

\* line 143: sort.Slice(results, ...) under c.sort and c.reverse
rank(key, rv, s) ==
  sortSlice(s, [p \in Range(s) \X Range(s) |-> less(key, rv, p[1], p[2])])

\* ---------------------------------------------------------- the reports
\* lines 216-230: the totals row of the server table
serverTotals == [clusters |-> Cardinality(DOMAIN clusters), servers |-> servers,
                 js |-> js, connections |-> connections, subs |-> subs,
                 memory |-> memory, slow |-> slow]

\* the orders in which `for c := range cl` may visit the map (lines 246-249)
Orders(S) == {q \in [1..Cardinality(S) -> S] : \A x \in S : \E i \in DOMAIN q : q[i] = x}

\* lines 251-253 with the comparison turned round
sortClusters_descending(s) ==
  sortSlice(s, [p \in Range(s) \X Range(s) |-> p[1].conns > p[2].conns])

\* lines 251-253
sortClusters(s) ==
  sortSlice(s, [p \in Range(s) \X Range(s) |-> p[1].conns < p[2].conns])

\* lines 255-268: the totals row of the cluster table
RECURSIVE clusterTotals(_, _)
clusterTotals(s, i) ==
  IF i > Len(s)
    THEN [in |-> 0, out |-> 0, nodes |-> 0, conns |-> 0]
    ELSE LET t == clusterTotals(s, i + 1)
         IN [in |-> t.in + s[i].gwIn, out |-> t.out + s[i].gwOut,
             nodes |-> t.nodes + Len(s[i].nodes), conns |-> t.conns + s[i].conns]

\* ------------------------------------------- the coordinator, after line 123
\* lines 125-129
CheckResults ==
  /\ pcC = "check"
  /\ IF Len(results) = 0
       THEN /\ err' = "NoResults"
            /\ pcC' = "done"
       ELSE /\ err' = err
            /\ pcC' = IF json THEN "json" ELSE "sort"
  /\ UNCHANGED <<cfgVars, cbErr, collectorVars, now, pc, cur, mu, results, rollupVars,
                 out, pre>>

\* lines 130-131
PrintJSON ==
  /\ pcC = "json"
  /\ out' = Append(out, [kind |-> "json", rows |-> results])
  /\ pcC' = "done"
  /\ UNCHANGED <<cfgVars, cbErr, collectorVars, now, pc, cur, mu, results, rollupVars,
                 err, pre>>

\* lines 143-169
Sort ==
  /\ pcC = "sort"
  /\ results' = rank(sortKey, reverse, results)
  /\ pcC' = "render"
  /\ UNCHANGED <<cfgVars, cbErr, collectorVars, now, pc, cur, mu, rollupVars, out, err,
                 pre>>

\* lines 171-238: the server table, its totals row, and the test of line 234
Render ==
  /\ pcC = "render"
  /\ out' = Append(out, [kind |-> "servers", rows |-> results,
                         totals |-> serverTotals])
  /\ pcC' = IF Cardinality(DOMAIN clusters) > 0 THEN "clusters" ELSE "done"
  /\ UNCHANGED <<cfgVars, cbErr, collectorVars, now, pc, cur, mu, results, rollupVars,
                 err, pre>>

\* lines 241-271
ShowClusters ==
  /\ pcC = "clusters"
  /\ \E q \in Orders(DOMAIN clusters) :
       LET rows == sortClusters([i \in DOMAIN q |-> clusters[q[i]]])
       IN out' = Append(out, [kind |-> "clusters", rows |-> rows,
                              totals |-> clusterTotals(rows, 1)])
  /\ pcC' = "done"
  /\ UNCHANGED <<cfgVars, cbErr, collectorVars, now, pc, cur, mu, results, rollupVars,
                 err, pre>>

\* ------------------------------------------------------- specifications
\* lines 50-54 and 69-82: the parsed flags and the fresh accumulators
Init ==
  /\ expect \in 0..MaxExpect
  /\ json \in BOOLEAN
  /\ sortKey \in RunSortKeys
  /\ reverse \in BOOLEAN
  /\ pcC = "collect"
  /\ closed = FALSE
  /\ closeReason = "none"
  /\ now = 0
  /\ started = 0
  /\ completed = 0
  /\ pc = [h \in Workers |-> "idle"]
  /\ cur = [h \in Workers |-> NoPayload]
  /\ mu = NoHolder
  /\ results = <<>>
  /\ servers = 0
  /\ connections = 0
  /\ memory = 0
  /\ slow = 0
  /\ subs = u32(0, 0)
  /\ js = 0
  /\ clusters = <<>>
  /\ out = <<>>
  /\ err = "none"
  /\ cbErr = FALSE
  /\ pre = NoSnapshot
  /\ lenAtClose = -1

Callback(h) ==
  \/ Unmarshal(h)
  \/ IfErr(h)
  \/ Lock(h)
  \/ UpdateGlobal(h)
  \/ UpdateCluster(h)
  \/ AppendResult(h)
  \/ Unlock(h)

Coordinator ==
  \/ CheckResults
  \/ PrintJSON
  \/ Sort
  \/ Render
  \/ ShowClusters

Next ==
  \/ \E h \in Workers, p \in Payloads : Deliver(h, p)
  \/ \E h \in Workers : Callback(h)
  \/ \E h \in Workers : Counted(h)
  \/ Tick
  \/ TimeoutFire
  \/ Coordinator

Spec == Init /\ [][Next]_vars

\* time passes and the timer fires
FairSpec ==
  /\ Spec
  /\ WF_vars(Tick)
  /\ WF_vars(TimeoutFire)

\* The collection alone, under the default flags (line 52: sort "name";
\* json and reverse unset): doReqAsync and the callbacks it runs.
InitCollect == Init /\ ~json /\ sortKey = "name" /\ ~reverse

NextCollect ==
  \/ \E h \in Workers, p \in Payloads : Deliver(h, p)
  \/ \E h \in Workers : Callback(h)
  \/ \E h \in Workers : Counted(h)
  \/ Tick
  \/ TimeoutFire

SpecCollect == InitCollect /\ [][NextCollect]_vars

FairCollect ==
  /\ SpecCollect
  /\ WF_vars(Tick)
  /\ WF_vars(TimeoutFire)

\* The ranking and the reports alone: list resumes after a collection during
\* which the records of s arrived one after the other, the i-th at time t[i],
\* either at once or as the window was about to close.
SeqsUpTo(S, n) == UNION {[1..k -> S] : k \in 0..n}

RECURSIVE rollupAfter(_, _)
rollupAfter(s, i) ==
  IF i = 0
    THEN [servers |-> 0, connections |-> 0, memory |-> 0, slow |-> 0,
          subs |-> u32(0, 0), js |-> 0, clusters |-> <<>>]
    ELSE LET g == rollupAfter(s, i - 1)
         IN [servers |-> addServers(g.servers),
             connections |-> addConnections(g.connections, s[i]),
             memory |-> addMemory(g.memory, s[i]),
             slow |-> addSlow(g.slow, s[i]),
             subs |-> addSubs(g.subs, s[i]),
             js |-> addJs(g.js, s[i]),
             clusters |-> addCluster(g.clusters, s[i])]

InitRank ==
  /\ expect = 0
  /\ json \in BOOLEAN
  /\ sortKey \in SortEnum
  /\ reverse \in BOOLEAN
  /\ pcC = "check"
  /\ closed = TRUE
  /\ closeReason = "timeout"
  /\ now = Timeout
  /\ pc = [h \in Workers |-> "idle"]
  /\ cur = [h \in Workers |-> NoPayload]
  /\ mu = NoHolder
  /\ \E s \in SeqsUpTo(Catalogue, MaxRank) :
       \E t \in [DOMAIN s -> {0, Timeout}] :
         /\ \A i, j \in DOMAIN s : i < j => t[i] <= t[j]
         /\ results = [i \in DOMAIN s |-> newResult(s[i], t[i], i)]
         /\ started = Len(s)
         /\ completed = Len(s)
         /\ lenAtClose = Len(s)
         /\ LET g == rollupAfter(s, Len(s))
            IN /\ servers = g.servers
               /\ connections = g.connections
               /\ memory = g.memory
               /\ slow = g.slow
               /\ subs = g.subs
               /\ js = g.js
               /\ clusters = g.clusters
  /\ out = <<>>
  /\ err = "none"
  /\ cbErr = FALSE
  /\ pre = NoSnapshot

SpecRank == InitRank /\ [][Coordinator]_vars

\* ===================================================== properties
\* What sequential delivery of the records of q, in that order, is to leave
\* in the rollups, written from the data model rather than from the callback.
RECURSIVE SumField(_, _, _)
SumField(q, f, i) == IF i > Len(q) THEN 0 ELSE q[i][f] + SumField(q, f, i + 1)

RECURSIVE SumHalf(_, _, _)
SumHalf(q, f, i) == IF i > Len(q) THEN 0 ELSE q[i].subs[f] + SumHalf(q, f, i + 1)

RECURSIVE CountJs(_, _)
CountJs(q, i) == IF i > Len(q) THEN 0 ELSE (IF q[i].js THEN 1 ELSE 0) + CountJs(q, i + 1)

SeqSubs(q) ==
  LET l == SumHalf(q, "lo", 1)
      h == SumHalf(q, "hi", 1)
  IN [hi |-> (h + (l \div Half)) % Half, lo |-> l % Half]

InCluster(q, c) == SelectSeq(q, LAMBDA r : r.cluster = c)

SeqNodes(q, c) == [i \in DOMAIN InCluster(q, c) |-> InCluster(q, c)[i].name]

SeqClusterNames(q) == {q[i].cluster : i \in DOMAIN q} \ {""}

SeqClusters(q) ==
  [c \in SeqClusterNames(q) |->
     [name |-> c, nodes |-> SeqNodes(q, c),
      gwOut |-> SumField(InCluster(q, c), "gws", 1),
      gwIn |-> SumField(InCluster(q, c), "gwIn", 1),
      conns |-> SumField(InCluster(q, c), "conns", 1)]]

SeqGlobal(q) ==
  [servers |-> Len(q), connections |-> SumField(q, "conns", 1),
   memory |-> SumField(q, "mem", 1), slow |-> SumField(q, "slow", 1),
   subs |-> SeqSubs(q), js |-> CountJs(q, 1)]

Global == [servers |-> servers, connections |-> connections, memory |-> memory,
           slow |-> slow, subs |-> subs, js |-> js]

\* the records of the result set, in the order they were appended
Collected == [i \in DOMAIN results |-> results[i].msg]

\* every order in which the records of q can be delivered
Reorderings(q) == {[i \in DOMAIN q |-> q[f[i]]] : f \in Permutations(DOMAIN q)}

SameBag(a, b) == \E f \in Permutations(DOMAIN a) : Len(a) = Len(b) /\ \A i \in DOMAIN a : a[i] = b[f[i]]

\* no callback is between its Lock and its Unlock
Quiescent == mu = NoHolder

\* the coordinator is past doReqAsync and reading what was collected
Reading == pcC \in {"check", "json", "sort", "render", "clusters"}

\* C1: the append of a record and the update of the rollups for it are one
\* atomic unit for every reader: whoever reads without being inside a
\* callback, in particular the coordinator once collection has returned,
\* finds serverCount equal to the length of the result set.
C1_AtomicPerRecord ==
  /\ Quiescent => servers = Len(results)
  /\ Reading => servers = Len(results)

\* C2 (as stated): once the callbacks have run, concurrently and in any
\* interleaving, the global rollup and the cluster rollups, nodeNames
\* included, are those of sequential delivery of the same records in any
\* order.
C2_AnyOrderIdentical ==
  Quiescent =>
    \A q \in Reorderings(Collected) :
      /\ Global = SeqGlobal(q)
      /\ clusters = SeqClusters(q)

\* C2 (amended): the global rollup and every cluster's three sums are those
\* of sequential delivery in any order; every cluster's nodeNames is a
\* reordering of the nodeNames of any such delivery, and is exactly the
\* nodeNames of sequential delivery in the order of the result set.
C2_SumsAnyOrder ==
  Quiescent =>
    /\ clusters = SeqClusters(Collected)
    /\ \A q \in Reorderings(Collected) :
         /\ Global = SeqGlobal(q)
         /\ DOMAIN clusters = SeqClusterNames(q)
         /\ \A c \in DOMAIN clusters :
              /\ clusters[c].conns = SeqClusters(q)[c].conns
              /\ clusters[c].gwOut = SeqClusters(q)[c].gwOut
              /\ clusters[c].gwIn = SeqClusters(q)[c].gwIn
              /\ SameBag(clusters[c].nodes, SeqClusters(q)[c].nodes)

\* two callbacks ran at once and the one handed out second finished first
C2_Witness ==
  /\ Quiescent
  /\ pc[1] = "lock"
  /\ pc[2] = "return"
  /\ Len(results) = 1
  /\ cur[1].cluster = "A"
  /\ cur[2].cluster = "A"
  /\ cur[1].name # cur[2].name

\* C3: one onRecord call, whatever the rollups were when it took the mutex
\* (pre), raises serverCount by 1 and connectionTotal by the record's
\* connections; for a non-empty clusterName it creates or updates the one
\* rollup of that name, whose nodeNames grows by one entry, and leaves every
\* other cluster rollup as it was; for an empty clusterName the cluster
\* rollups are untouched.
C3_OneCallEffect ==
  \A h \in Workers :
    pc[h] = "unlock" =>
      LET r == cur[h]
          c == r.cluster
          before == IF c \in DOMAIN pre.clusters THEN Len(pre.clusters[c].nodes) ELSE 0
      IN /\ servers = pre.servers + 1
         /\ connections = pre.connections + r.conns
         /\ IF c # ""
              THEN /\ DOMAIN clusters = DOMAIN pre.clusters \cup {c}
                   /\ Len(clusters[c].nodes) = before + 1
                   /\ \A d \in DOMAIN pre.clusters \ {c} : clusters[d] = pre.clusters[d]
              ELSE clusters = pre.clusters

\* a call has just updated a cluster that already existed
C3_Witness ==
  \E h \in Workers :
    /\ pc[h] = "unlock"
    /\ cur[h].cluster \in DOMAIN pre.clusters
    /\ Len(clusters[cur[h].cluster].nodes) = 2

\* --------------------------------------------------- ranking properties
NumericKeys == {"conns", "conn", "subs", "sub", "routes", "route", "gws", "gw",
                "mem", "cpu", "slow"}

\* a's value of the metric named by key is at most b's
MetricLeq(key, a, b) ==
  CASE key \in {"conns", "conn"} -> a.msg.conns <= b.msg.conns
    [] key \in {"subs", "sub"} -> ~u32Less(b.msg.subs, a.msg.subs)
    [] key \in {"routes", "route"} -> a.msg.routes <= b.msg.routes
    [] key \in {"gws", "gw"} -> a.msg.gws <= b.msg.gws
    [] key = "mem" -> a.msg.mem <= b.msg.mem
    [] key = "cpu" -> a.msg.cpu <= b.msg.cpu
    [] key = "slow" -> a.msg.slow <= b.msg.slow
    [] key = "uptime" -> a.msg.start <= b.msg.start
    [] key = "rtt" -> a.rtt <= b.rtt
    [] key = "name" -> a.msg.name <= b.msg.name

NonDecreasing(key, s) == \A i, j \in DOMAIN s : i < j => MetricLeq(key, s[i], s[j])
NonIncreasing(key, s) == \A i, j \in DOMAIN s : i < j => MetricLeq(key, s[j], s[i])

\* the sort of line 143 has run and nothing has touched the slice since
Ranked == pcC = "render"

\* C4: ranked on a numeric key the records are in non-increasing order of
\* the metric without the reverse flag and in non-decreasing order with it;
\* ranked on name they are in ascending order of server name whatever the
\* flag.  The spelling "gws" compares exactly as "gw" does.
C4_Direction ==
  Ranked =>
    /\ sortKey = "name" => NonDecreasing("name", results)
    /\ sortKey \in NumericKeys /\ ~reverse => NonIncreasing(sortKey, results)
    /\ sortKey \in NumericKeys /\ reverse => NonDecreasing(sortKey, results)
    /\ \A a, b \in Range(results) :
         less("gws", reverse, a, b) = less("gw", reverse, a, b)

\* three records ranked on memory, highest first, and the sort moved them
C4_Witness ==
  /\ Ranked
  /\ sortKey = "mem"
  /\ ~reverse
  /\ Len(results) = 3
  /\ results[1].id # 1
  /\ results[1].msg.mem > results[3].msg.mem

\* C5: ranking is stable for every key and both values of the flag: two
\* records with equal sort-key values keep the order in which they arrived.
C5_Stable ==
  Ranked =>
    \A i, j \in DOMAIN results :
      (/\ i < j
       /\ MetricLeq(sortKey, results[i], results[j])
       /\ MetricLeq(sortKey, results[j], results[i]))
        => results[i].id < results[j].id

C7_Uptime ==
  (Ranked /\ sortKey = "uptime") =>
    /\ ~reverse => NonDecreasing("uptime", results)
    /\ reverse => NonIncreasing("uptime", results)

\* records started at different times were ranked on uptime and reordered
C7_Witness ==
  /\ Ranked
  /\ sortKey = "uptime"
  /\ ~reverse
  /\ Len(results) >= 2
  /\ results[1].id # 1
  /\ results[1].msg.start < results[Len(results)].msg.start

\* ------------------------------------------------ collection properties
\* the wait inside doReqAsync is over
CollectionOver == pcC # "collect"

C9_ClosedEpoch ==
  [][(closed /\ pcC \in {"json", "sort", "render", "clusters"})
       => /\ UNCHANGED rollupVars
          /\ Len(results') = Len(results)]_vars

\* C10: when the result set is empty as the window closes, list returns the
\* NoResults error and prints nothing, in table mode and in JSON mode; when
\* it holds a record, NoResults is not returned.
C10_NoResults ==
  /\ (pcC = "done" /\ lenAtClose = 0) => (err = "NoResults" /\ out = <<>>)
  /\ (pcC = "done" /\ lenAtClose > 0) => err = "none"
  /\ err = "NoResults" => out = <<>>

\* ------------------------------------------------------ decode failures
\* C11: a reply that fails to decode always aborts the run: it never gets
\* past the error test of line 87 into the aggregation, and it is never in
\* the result set.
C11_DecodeFatal ==
  /\ \A h \in Workers : cur[h] = Malformed => pc[h] \in {"decode", "iferr"}
  /\ \A i \in DOMAIN results : results[i].msg # Malformed

\* ------------------------------------------------- rollups as folds
\* C12: whenever no callback is inside its critical section, there is a
\* cluster rollup for exactly the non-empty cluster names of the result set,
\* never for the empty name; its nodeNames is the server names of that
\* cluster's records in arrival order, one per reply even when a server
\* replied twice, and its three totals are the sums of their connections,
\* gateway counts and inbound gateway connections.
C12_ClusterFold ==
  Quiescent =>
    /\ DOMAIN clusters = {results[i].msg.cluster : i \in DOMAIN results} \ {""}
    /\ "" \notin DOMAIN clusters
    /\ \A c \in DOMAIN clusters :
         LET of == InCluster(Collected, c)
         IN /\ clusters[c].name = c
            /\ clusters[c].nodes = [i \in DOMAIN of |-> of[i].name]
            /\ clusters[c].conns = SumField(of, "conns", 1)
            /\ clusters[c].gwOut = SumField(of, "gws", 1)
            /\ clusters[c].gwIn = SumField(of, "gwIn", 1)

\* the same server replied twice and is listed twice in its cluster
C12_Witness ==
  /\ Quiescent
  /\ "A" \in DOMAIN clusters
  /\ Len(clusters["A"].nodes) = 2
  /\ clusters["A"].nodes[1] = clusters["A"].nodes[2]

\* C13: whenever no callback is inside its critical section, the global
\* rollup is the fold of the result set: servers is the number of records,
\* connections, memory and slow are the sums of the records' fields, and js
\* counts exactly the records with JetStream enabled.
C13_GlobalFold ==
  Quiescent =>
    /\ servers = Len(results)
    /\ connections = SumField(Collected, "conns", 1)
    /\ memory = SumField(Collected, "mem", 1)
    /\ slow = SumField(Collected, "slow", 1)
    /\ js = Cardinality({i \in DOMAIN results : results[i].msg.js})

\* two records collected, one with JetStream and one without
C13_Witness ==
  /\ Quiescent
  /\ Len(results) = 2
  /\ js = 1
  /\ slow > 0

\* ------------------------------------------------- machine-readable mode
\* C14: in JSON mode the emitted sequence holds exactly the collected records,
\* in the order the table mode would show for the chosen sort key and reverse
\* flag (the result set is still in arrival order when the run is over in
\* JSON mode, so the table's order is its ranking).
C14_JsonRanked ==
  (json /\ pcC = "done") =>
    \A k \in DOMAIN out :
      out[k].kind = "json" =>
        /\ SameBag(out[k].rows, results)
        /\ out[k].rows = rank(sortKey, reverse, results)

\* ------------------------------------------------- the sort flag's enum
\* C15: the values the sort flag accepts are exactly the keys of the ranking
\* table: the key of a run is an accepted one, every key with a comparator
\* and every key the help text advertises is accepted, and every accepted
\* key has its own comparator or is the round-trip time of the default branch.
C15_EnumIsRankingTable ==
  /\ sortKey \in SortEnum
  /\ \A k \in SwitchKeys \cup HelpKeys : k \in SortEnum
  /\ \A k \in SortEnum : k \in SwitchKeys \cup {"rtt"}

\* ------------------------------------------------- the cluster table
\* tables of cluster rollups among the output
ClusterTables == {k \in DOMAIN out : out[k].kind = "clusters"}

\* C16: once a table-mode run is over, a cluster table has been produced if
\* and only if at least one cluster rollup exists; its rows are the cluster
\* rollups, one row each, in non-decreasing order of their connection totals,
\* whatever the sort key and reverse flag of the server table.  (The
\* machine-readable mode renders no table at all.)
C16_ClusterTable ==
  /\ json => ClusterTables = {}
  /\ (~json /\ pcC = "done") =>
       /\ (ClusterTables # {}) <=> (DOMAIN clusters # {})
       /\ \A k \in ClusterTables :
            LET rows == out[k].rows
            IN /\ Len(rows) = Cardinality(DOMAIN clusters)
               /\ {rows[i] : i \in DOMAIN rows} = {clusters[c] : c \in DOMAIN clusters}
               /\ \A i, j \in DOMAIN rows : i < j => rows[i].conns <= rows[j].conns

\* a cluster table of two rows with different connection totals, under a
\* server table ranked by connections with the most connections first
C16_Witness ==
  /\ ~json /\ pcC = "done"
  /\ sortKey = "conns" /\ ~reverse
  /\ \E k \in ClusterTables :
       /\ Len(out[k].rows) = 2
       /\ out[k].rows[1].conns < out[k].rows[2].conns

\* ------------------------------------------------- ranking as a frame
\* C17: the ranking step only reorders: for every sort key and reverse flag
\* the result set after it holds the same records with the same
\* multiplicities as before it, each record unmodified, and the global
\* rollup and every cluster rollup are what they were.
C17_RankingOnlyReorders ==
  [][pcC = "sort" =>
       /\ Len(results') = Len(results)
       /\ \E f \in Permutations(DOMAIN results) :
            \A i \in DOMAIN results : results'[i] = results[f[i]]
       /\ UNCHANGED <<servers, connections, memory, slow, subs, js, clusters>>]_vars

\* three records ranked, the one that arrived last now first
C17_Witness ==
  /\ Ranked
  /\ Len(results) = 3
  /\ results[1].id = 3

\* ------------------------------------------------- the subscription total
\* C18: whenever no callback is inside its critical section, the subscription
\* total is the exact arithmetic sum of the subscriptions of the collected
\* records: written in 16-bit halves, its low half is the low half of the sum
\* and its high half is the whole of the rest, with nothing carried away.
C18_SubsExactSum ==
  Quiescent =>
    LET l == SumHalf(Collected, "lo", 1)
        h == SumHalf(Collected, "hi", 1)
    IN /\ subs.lo = l % Half
       /\ subs.hi = h + (l \div Half)

\* ------------------------------------------------- the comparator
\* C19: the comparator handed to the sort is irreflexive and asymmetric: for
\* every sort key and reverse flag, and every two records of the result set
\* about to be ranked (a record and itself included), it does not report both
\* that the first precedes the second and that the second precedes the first.
C19_StrictOrdering ==
  pcC = "sort" =>
    \A i, j \in DOMAIN results :
      ~(/\ less(sortKey, reverse, results[i], results[j])
        /\ less(sortKey, reverse, results[j], results[i]))

\* ------------------------------------------------- the two totals rows
\* server tables among the output
ServerTables == {k \in DOMAIN out : out[k].kind = "servers"}

\* C20: once the run is over the two totals rows agree with each other and
\* with the result set: the cluster count of the server table's totals row
\* is the number of distinct non-empty cluster names of the collected
\* records; the node total of the cluster table is the number of collected
\* records with a non-empty cluster name and is at most the server count of
\* the server table's totals row; and the connection total of the cluster
\* table is the global connection total less the connections of the records
\* with an empty cluster name.
C20_TotalsConsistent ==
  pcC = "done" =>
    \A s \in ServerTables :
      LET named == SelectSeq(Collected, LAMBDA r : r.cluster # "")
          unnamed == SelectSeq(Collected, LAMBDA r : r.cluster = "")
      IN /\ out[s].totals.clusters =
              Cardinality({named[i].cluster : i \in DOMAIN named})
         /\ \A c \in ClusterTables :
              /\ out[c].totals.nodes = Len(named)
              /\ out[c].totals.nodes <= out[s].totals.servers
              /\ out[c].totals.conns =
                   out[s].totals.connections - SumField(unnamed, "conns", 1)

====
